---- MODULE Spec2Model ----
(***************************************************************************)
(* Browser-server: the browser lifecycle manager (browser_server.py), the  *)
(* port prober (utils.py) and the two transport facades over it, the gRPC  *)
(* servicer (server.py) and the HTTP API (api_server.py).                  *)
(*                                                                         *)
(* In Spec and SpecEdge every handler runs to completion as one step; the  *)
(* steps of the machine around it (browser processes opening their debug   *)
(* port or exiting, other processes taking and releasing ports) are        *)
(* separate steps.  In SpecWorkers the lifecycle calls of two threads of   *)
(* the gRPC pool interleave between their reads and writes of the registry.*)
(*                                                                         *)
(* Python values: None is the string "None" where a string or None is      *)
(* expected; a URL string is the tuple <<scheme, host, port, path>>; an    *)
(* Optional dict is a record [none, info].                                 *)
(***************************************************************************)
EXTENDS Integers, Sequences, FiniteSets, TLC

VARIABLES
    BROWSER_PROCESSES,  \* port -> [process, user_data_dir, browser_name]
    procs,              \* process handle -> [state, port]: the spawned browsers that
                        \* are alive or that a registry entry still refers to
    dirs,               \* the profile directories that exist on disk
    launches,           \* number of profile directories created so far (mkdtemp calls)
    extPorts,           \* the local ports other processes have sockets on, as a set
                        \* of port ranges <<first, last>>
    last,               \* the step just taken: the call, its inputs, what it returned
    calls               \* worker thread -> the frame of its lifecycle call, for the
                        \* runs in which the calls of two workers interleave

vars == <<BROWSER_PROCESSES, procs, dirs, launches, extPorts, last, calls>>

----------------------------------------------------------------------------
(* Bounds of the model *)

MaxLaunches == 2

(* Program constants *)

ReservedLo == 50050
ReservedHi == 50062
ScanLimit == 100
DefaultPort == 9999

reserved_ports == ReservedLo .. (ReservedHi - 1)

SupportedBrowsers == {"firefox", "webkit", "chrome", "chromium"}

(* Inputs *)

BrowserNames == {"chrome", "safari"}
\* Names of gRPC requests: the unset name, which the servicer takes for chrome.
GrpcNames == {"", "safari"}
\* Requested ports: just below the reserved band and inside it.
RequestedPorts == {ReservedLo - 1, ReservedLo}
\* Ports of stop and query requests: the ports a start from those can use first.
KnownPorts == {ReservedLo - 1, ReservedHi}
\* What other processes hold: one port, or every port of a scan from there on.
ExternalRanges ==
    {<<ReservedLo - 1, ReservedLo - 1>>, <<ReservedLo, ReservedLo + ScanLimit>>}
LocalIps == {"127.0.0.1", "192.168.1.20"}

None == "None"
NoUrl == <<"", "", 0, "">>

----------------------------------------------------------------------------
(* utils.py *)

\* psutil.net_connections(): the local ports of all sockets on the machine, as
\* port ranges; a listening browser has the one port it was started with.
net_connections(ps, ext) ==
    ext \cup {<<ps[i].port, ps[i].port>> :
                i \in {j \in DOMAIN ps : ps[j].state = "listening"}}

\* Mutant: compares the port with the first port of a range only.
is_port_in_use_first(conns, port) == \E conn \in conns : conn[1] = port

is_port_in_use(conns, port) ==
    \E conn \in conns : conn[1] <= port /\ port <= conn[2]

----------------------------------------------------------------------------
(* browser_server.py *)

\* What the playwright installation knows: the browser families it can
\* resolve to an executable.
PlaywrightFamilies == {"firefox", "webkit", "chromium"}

\* The executable path of a browser, None when playwright raises.
get_browser_executable_path(installed, browser_name) ==
    LET name == IF browser_name = "chrome" THEN "chromium" ELSE browser_name
    IN  IF name \in PlaywrightFamilies /\ name \in installed THEN name ELSE None

\* Mutant: the scan without the reserved band.
RECURSIVE scan_port_unreserved(_, _, _)
scan_port_unreserved(conns, port, original_port) ==
    IF is_port_in_use(conns, port)
    THEN IF port + 1 > original_port + ScanLimit
         THEN [found |-> FALSE, port |-> original_port,
               probes |-> port - original_port + 1]
         ELSE scan_port_unreserved(conns, port + 1, original_port)
    ELSE [found |-> TRUE, port |-> port, probes |-> port - original_port + 1]

\* Mutant: the port is incremented before it is tested.
RECURSIVE scan_port_from_next(_, _, _)
scan_port_from_next(conns, port, original_port) ==
    IF port = original_port
       \/ is_port_in_use(conns, port) \/ port \in reserved_ports
    THEN IF port + 1 > original_port + ScanLimit
         THEN [found |-> FALSE, port |-> original_port,
               probes |-> port - original_port + 1]
         ELSE scan_port_from_next(conns, port + 1, original_port)
    ELSE [found |-> TRUE, port |-> port, probes |-> port - original_port + 1]

\* Mutant: the scan gives up one port later.
RECURSIVE scan_port_cap_late(_, _, _)
scan_port_cap_late(conns, port, original_port) ==
    IF is_port_in_use(conns, port) \/ port \in reserved_ports
    THEN IF port + 1 > original_port + ScanLimit + 1
         THEN [found |-> FALSE, port |-> original_port,
               probes |-> port - original_port + 1]
         ELSE scan_port_cap_late(conns, port + 1, original_port)
    ELSE [found |-> TRUE, port |-> port, probes |-> port - original_port + 1]

\* The while loop of start_browser: the first port from `port` on that is
\* neither in use nor reserved, given up once past original_port + 100.
\* probes counts the calls of is_port_in_use.
RECURSIVE scan_port(_, _, _)
scan_port(conns, port, original_port) ==
    IF is_port_in_use(conns, port) \/ port \in reserved_ports
    THEN IF port + 1 > original_port + ScanLimit
         THEN [found |-> FALSE, port |-> original_port,
               probes |-> port - original_port + 1]
         ELSE scan_port(conns, port + 1, original_port)
    ELSE [found |-> TRUE, port |-> port, probes |-> port - original_port + 1]

\* Mutant: any non-empty name passes.
valid_browser_lax(browser_name) == browser_name # ""

\* browser_name in ["firefox", "webkit", "chrome", "chromium"]
valid_browser(browser_name) == browser_name \in SupportedBrowsers

\* Mutant: the dict is rebound to the one new item.
dict_set_clobber(d, key, value) == [k \in {key} |-> value]

\* BROWSER_PROCESSES[port] = entry
dict_set(d, key, value) ==
    [k \in DOMAIN d \cup {key} |-> IF k = key THEN value ELSE d[k]]

\* Mutant: the item stays.
dict_del_noop(d, key) == d

\* del BROWSER_PROCESSES[port]
dict_del(d, key) == [k \in DOMAIN d \ {key} |-> d[k]]

\* d.get(key, default)
dict_get(d, key, default) == IF key \in DOMAIN d THEN d[key] ELSE default

\* The state the lifecycle manager reads and writes, as one value.
World ==
    [reg |-> BROWSER_PROCESSES, procs |-> procs, dirs |-> dirs,
     launches |-> launches, ext |-> extPorts]

\* A Popen object nothing refers to any more is collected once its process
\* has exited: procs keeps the live and the referenced ones.
collect(w) ==
    LET kept == {i \in DOMAIN w.procs :
                   \/ w.procs[i].state # "exited"
                   \/ \E p \in DOMAIN w.reg : w.reg[p].process = i}
    IN  [w EXCEPT !.procs = [i \in kept |-> w.procs[i]]]

\* A debug port a browser can open.
TcpPorts == 1 .. 65535

\* The spawned browser at the end of the 2-second sleep: it opened its debug
\* port, is still coming up, or has exited already.
spawned_state(after, port) ==
    IF after = "listening" /\ port \notin TcpPorts THEN "starting" ELSE after

\* start_browser from line 49 on, the scan having found scan.port. env is
\* what the machine does during the call: the browsers playwright finds
\* installed, whether mkdtemp or Popen raises, and the state of the spawned
\* browser when the 2-second sleep ends.
launch_browser(w, browser_name, scan, env) ==
    LET browser_path == get_browser_executable_path(env.installed, browser_name)
        id == w.launches + 1
        entry == [process |-> id, user_data_dir |-> id, browser_name |-> browser_name]
    IN  IF browser_path = None
        THEN [ret |-> <<FALSE, scan.port, "Could not find executable for browser">>,
              w |-> w, probes |-> scan.probes]
        ELSE IF env.os = "mkdtemp_raises"
        THEN [ret |-> <<FALSE, scan.port, "OSError">>, w |-> w, probes |-> scan.probes]
        ELSE IF env.os = "popen_raises"
        THEN [ret |-> <<FALSE, scan.port, "OSError">>,
              w |-> [w EXCEPT !.dirs = @ \cup {id}, !.launches = id],
              probes |-> scan.probes]
        ELSE [ret |-> <<TRUE, scan.port, None>>,
              w |-> collect([w EXCEPT
                       !.dirs = @ \cup {id},
                       !.launches = id,
                       !.procs = dict_set(@, id,
                                   [state |-> spawned_state(env.after, scan.port),
                                    port |-> scan.port]),
                       !.reg = dict_set(@, scan.port, entry)]),
              probes |-> scan.probes]

\* start_browser(browser_name, port) in world w: the outcomes of the call,
\* one for each env of envs the call gets far enough to depend on. An outcome
\* is the returned tuple, the world after the call and the number of
\* is_port_in_use calls of the scan.
start_browser(w, browser_name, port, envs) ==
    LET conns == net_connections(w.procs, w.ext)
        scan == scan_port(conns, port, port)
    IN  IF ~valid_browser(browser_name)
        THEN {[ret |-> <<FALSE, port, "Invalid browser">>, w |-> w, probes |-> 0]}
        ELSE IF ~scan.found
        THEN {[ret |-> <<FALSE, port, "Could not find an available port within range">>,
               w |-> w, probes |-> scan.probes]}
        ELSE {launch_browser(w, browser_name, scan, env) : env \in envs}

is_browser_running(conns, port) == is_port_in_use(conns, port)

\* Mutant: the status code of the answer is not looked at.
get_browser_connection_any_status(conns, port, response) ==
    LET ip == "127.0.0.1"
        fallback == [ip |-> ip, port |-> port,
                     cdp_url |-> <<"ws", ip, port, "/">>,
                     ws_endpoint |-> <<"ws", ip, port, "/">>]
        ws_url == IF "webSocketDebuggerUrl" \in DOMAIN response.data
                  THEN response.data["webSocketDebuggerUrl"]
                  ELSE <<"", "", 0, "">>
    IN  IF ~is_port_in_use(conns, port)
        THEN [none |-> TRUE, info |-> fallback]
        ELSE IF response.outcome = "ok" /\ ws_url # <<"", "", 0, "">>
        THEN [none |-> FALSE,
              info |-> [ip |-> ip, port |-> port, cdp_url |-> ws_url, ws_endpoint |-> ws_url]]
        ELSE [none |-> FALSE, info |-> fallback]

\* The answer of GET http://127.0.0.1:<port>/json/version:
\*   [outcome, status_code, data], data the JSON object as a dict.
\* get_browser_connection(port) with that answer; None is [none |-> TRUE].
get_browser_connection(conns, port, response) ==
    LET ip == "127.0.0.1"
        fallback == [ip |-> ip, port |-> port,
                     cdp_url |-> <<"ws", ip, port, "/">>,
                     ws_endpoint |-> <<"ws", ip, port, "/">>]
        ws_url == dict_get(response.data, "webSocketDebuggerUrl", NoUrl)
    IN  IF ~is_browser_running(conns, port)
        THEN [none |-> TRUE, info |-> fallback]
        ELSE IF response.outcome = "ok" /\ response.status_code = 200 /\ ws_url # NoUrl
        THEN [none |-> FALSE,
              info |-> [ip |-> ip, port |-> port, cdp_url |-> ws_url, ws_endpoint |-> ws_url]]
        ELSE [none |-> FALSE, info |-> fallback]

\* Mutant: no kill() after the wait timed out.
stop_signals_no_kill(graceful) == <<"terminate">>

\* process.terminate(), process.wait(timeout=5) and, when the wait times out,
\* process.kill(): the signals sent to a live process. SIGKILL ends it.
stop_signals(graceful) ==
    IF graceful THEN <<"terminate">> ELSE <<"terminate", "kill">>

\* The processes after `signals` were sent to `process`: it has exited when it
\* obeyed terminate() within the wait or was killed.
stop_process(ps, process, signals, graceful) ==
    IF graceful \/ (Len(signals) > 0 /\ signals[Len(signals)] = "kill")
    THEN [ps EXCEPT ![process].state = "exited"]
    ELSE ps

\* Mutant: rmtree without ignore_errors, its error caught by the handler.
close_browser_rmtree_raises(w, port, env) ==
    IF port \notin DOMAIN w.reg
    THEN [ret |-> <<FALSE, "No browser process tracked on port">>, w |-> w,
          signals |-> <<>>, cleanup |-> "none"]
    ELSE
    LET browser_info == w.reg[port]
        process == browser_info.process
        user_data_dir == browser_info.user_data_dir
        alive == w.procs[process].state # "exited"
        signals == IF alive THEN stop_signals(env.graceful) ELSE <<>>
        procs1 == IF alive
                  THEN stop_process(w.procs, process, signals, env.graceful)
                  ELSE w.procs
        exists == user_data_dir \in w.dirs
    IN  IF exists /\ ~env.rmtree_ok
        THEN [ret |-> <<FALSE, "OSError">>, w |-> [w EXCEPT !.procs = procs1],
              signals |-> signals, cleanup |-> "failed"]
        ELSE [ret |-> <<TRUE, None>>,
              w |-> collect([w EXCEPT !.procs = procs1,
                                      !.dirs = @ \ {user_data_dir},
                                      !.reg = dict_del(@, port)]),
              signals |-> signals,
              cleanup |-> IF exists THEN "removed" ELSE "none"]

\* close_browser(port) in world w. env: does the browser exit within the
\* 5-second wait after terminate() (graceful), does rmtree remove the
\* directory (rmtree_ok). signals and cleanup tell what the call did.
close_browser(w, port, env) ==
    IF port \notin DOMAIN w.reg
    THEN [ret |-> <<FALSE, "No browser process tracked on port">>, w |-> w,
          signals |-> <<>>, cleanup |-> "none"]
    ELSE
    LET browser_info == w.reg[port]
        process == browser_info.process
        user_data_dir == browser_info.user_data_dir
        alive == w.procs[process].state # "exited"
        signals == IF alive THEN stop_signals(env.graceful) ELSE <<>>
        procs1 == IF alive
                  THEN stop_process(w.procs, process, signals, env.graceful)
                  ELSE w.procs
        exists == user_data_dir \in w.dirs
        dirs1 == IF exists /\ env.rmtree_ok THEN w.dirs \ {user_data_dir} ELSE w.dirs
    IN  [ret |-> <<TRUE, None>>,
         w |-> collect([w EXCEPT !.procs = procs1, !.dirs = dirs1,
                                 !.reg = dict_del(@, port)]),
         signals |-> signals,
         cleanup |-> IF ~exists THEN "none"
                     ELSE IF env.rmtree_ok THEN "removed" ELSE "failed"]

----------------------------------------------------------------------------
(* The transport facades *)

\* Python's `x or default` on a string and on an int.
or_str(x, default) == IF x = "" \/ x = None THEN default ELSE x
or_int(x, default) == IF x = 0 THEN default ELSE x

\* A response of either facade. status is 200 for a normal answer and 500
\* for the HTTPException; a field left at None (HTTP) or at its protobuf
\* default (gRPC) is "", NoUrl or 0.
NoResponse ==
    [status |-> 200, success |-> FALSE, message |-> "", running |-> FALSE,
     cdp_url |-> NoUrl, ws_endpoint |-> NoUrl, ip |-> "", port |-> 0]

ServerError(detail) == [NoResponse EXCEPT !.status = 500, !.message = detail]

\* server.py StartBrowser, after start_browser returned ret: conn_info is
\* get_browser_connection(used_port).
GrpcStartResponse(ret, conn_info) ==
    LET success == ret[1]
        used_port == ret[2]
        message == ret[3]
        ip == "127.0.0.1"
        base == [NoResponse EXCEPT !.success = success, !.message = or_str(message, "")]
    IN  IF ~success THEN base
        ELSE IF ~conn_info.none
        THEN [base EXCEPT !.cdp_url = dict_get(conn_info.info, "cdp_url", NoUrl),
                          !.ws_endpoint = dict_get(conn_info.info, "ws_endpoint", NoUrl)]
        ELSE [base EXCEPT !.cdp_url = <<"ws", ip, used_port, "/">>,
                          !.ws_endpoint = <<"ws", ip, used_port, "/">>]

\* api_server.py start_browser_endpoint, after start_browser returned ret:
\* `success, message = ret` raises ValueError unless ret has two components;
\* conn_info is get_browser_connection(request.port).
HttpStartResponse(ret, request_port, conn_info, local_ip) ==
    IF Len(ret) # 2
    THEN ServerError("ValueError")
    ELSE
    LET success == ret[1]
        message == ret[2]
        base == [NoResponse EXCEPT !.success = success, !.message = or_str(message, "")]
    IN  IF ~success THEN base
        ELSE IF ~conn_info.none
        THEN [base EXCEPT !.cdp_url = <<"http", local_ip, request_port, "">>,
                          !.ws_endpoint = dict_get(conn_info.info, "wsEndpoint",
                                              <<"ws", local_ip, request_port, "/">>)]
        ELSE [base EXCEPT !.cdp_url = <<"http", local_ip, request_port, "">>,
                          !.ws_endpoint = <<"ws", local_ip, request_port, "/">>]

\* server.py StopBrowser and api_server.py stop_browser_endpoint.
GrpcStopResponse(ret) ==
    [NoResponse EXCEPT !.success = ret[1], !.message = or_str(ret[2], "")]

HttpStopResponse(ret) ==
    IF Len(ret) # 2
    THEN ServerError("ValueError")
    ELSE [NoResponse EXCEPT !.success = ret[1], !.message = or_str(ret[2], "")]

\* server.py GetBrowserConnection for request port request_port.
GrpcConnectionResponse(conns, request_port, probe) ==
    LET port == or_int(request_port, DefaultPort)
        running == is_browser_running(conns, port)
        conn_info == get_browser_connection(conns, port, probe)
        ip == "127.0.0.1"
        base == [NoResponse EXCEPT !.running = running]
    IN  IF ~running THEN base
        ELSE IF ~conn_info.none
        THEN [base EXCEPT !.cdp_url = dict_get(conn_info.info, "cdp_url", NoUrl),
                          !.ws_endpoint = dict_get(conn_info.info, "ws_endpoint", NoUrl),
                          !.ip = dict_get(conn_info.info, "ip", ""),
                          !.port = dict_get(conn_info.info, "port", port)]
        ELSE [base EXCEPT !.cdp_url = <<"ws", ip, port, "/">>,
                          !.ws_endpoint = <<"ws", ip, port, "/">>,
                          !.ip = ip, !.port = port]

\* api_server.py get_browser_connection_endpoint for path port `port`.
HttpConnectionResponse(conns, port, probe, local_ip) ==
    LET running == is_browser_running(conns, port)
        conn_info == get_browser_connection(conns, port, probe)
        default == <<"ws", local_ip, port, "/">>
        base == [NoResponse EXCEPT !.running = running]
    IN  IF ~running THEN base
        ELSE [base EXCEPT !.cdp_url = <<"http", local_ip, port, "">>,
                          !.ws_endpoint = IF ~conn_info.none
                                          THEN dict_get(conn_info.info, "wsEndpoint", default)
                                          ELSE default,
                          !.ip = local_ip, !.port = port]

\* server.py IsBrowserRunning and api_server.py is_browser_running_endpoint.
GrpcRunningResponse(conns, request_port) ==
    [NoResponse EXCEPT !.running = is_browser_running(conns, or_int(request_port, DefaultPort))]

HttpRunningResponse(conns, port) ==
    [NoResponse EXCEPT !.running = is_browser_running(conns, port)]

----------------------------------------------------------------------------
(* Inputs of the handlers *)

\* The runs of start_browser that differ: playwright finds no executable;
\* mkdtemp raises; Popen raises; the browser is spawned and at the end of the
\* sleep is still coming up or is listening (that it has exited by then is
\* BrowserExits right after the call).
StartEnvs ==
    {[installed |-> {}, os |-> "ok", after |-> "starting"],
     [installed |-> PlaywrightFamilies, os |-> "mkdtemp_raises", after |-> "starting"],
     [installed |-> PlaywrightFamilies, os |-> "popen_raises", after |-> "starting"],
     [installed |-> PlaywrightFamilies, os |-> "ok", after |-> "starting"],
     [installed |-> PlaywrightFamilies, os |-> "ok", after |-> "listening"]}

CloseEnvs == [graceful : BOOLEAN, rmtree_ok : BOOLEAN]

\* What a browser reports as its webSocketDebuggerUrl.
DevtoolsUrl(port) == <<"ws", "127.0.0.1", port, "/devtools/browser/1">>

NoProbe == [outcome |-> "error", status_code |-> 0, data |-> [Browser |-> NoUrl]]

\* The answers GET /json/version on `port` can get: an exception (refused,
\* timeout), 200 with the field, 200 with the field empty, 200 without the
\* field, and a non-200 status whose body has the field.
Probes(port) ==
    {NoProbe,
     [outcome |-> "ok", status_code |-> 200,
      data |-> [webSocketDebuggerUrl |-> DevtoolsUrl(port)]],
     [outcome |-> "ok", status_code |-> 200, data |-> [webSocketDebuggerUrl |-> NoUrl]],
     [outcome |-> "ok", status_code |-> 200, data |-> [Browser |-> NoUrl]],
     [outcome |-> "ok", status_code |-> 404,
      data |-> [webSocketDebuggerUrl |-> DevtoolsUrl(port)]]}

NoConn == get_browser_connection({}, 0, NoProbe)

NoLast ==
    [facade |-> "", op |-> "init", browser_name |-> "", port |-> 0,
     start_ret |-> <<FALSE, 0, None>>, probes |-> 0,
     close_ret |-> <<FALSE, None>>, signals |-> <<>>, cleanup |-> "none",
     conn |-> NoConn, probe |-> NoProbe, response |-> NoResponse]

EnvStep == [NoLast EXCEPT !.op = "env"]

\* The gRPC workers whose calls interleave: two threads of the pool.
Workers == {1, 2}

\* The frame of a worker's call of start_browser or close_browser: where it
\* is (pc), its arguments and locals, what it returned (ret) or the
\* exception that left it (raised), and what it did so far: probes of the
\* port scan, waits for the process, steps taken. peer: another worker's call
\* was under way during this one.
NoCall ==
    [pc |-> "idle", op |-> "", browser_name |-> "", port |-> 0,
     process |-> 0, user_data_dir |-> 0, ret |-> <<>>, raised |-> None,
     probes |-> 0, waits |-> 0, steps |-> 0, peer |-> FALSE]

SetWorld(w) ==
    /\ BROWSER_PROCESSES' = w.reg
    /\ procs' = w.procs
    /\ dirs' = w.dirs
    /\ launches' = w.launches
    /\ extPorts' = w.ext

----------------------------------------------------------------------------
(* The handlers. last.port is the port handed to the lifecycle manager. *)

Init ==
    /\ BROWSER_PROCESSES = <<>>
    /\ procs = <<>>
    /\ dirs = {}
    /\ launches = 0
    /\ extPorts = {}
    /\ last = NoLast
    /\ calls = [t \in Workers |-> NoCall]

\* The inputs a call can depend on: a stop reads its environment once the
\* port is tracked, a connection query asks the browser once the port is in use.
CloseEnvsAt(port) ==
    IF port \in DOMAIN BROWSER_PROCESSES
    THEN CloseEnvs
    ELSE {[graceful |-> TRUE, rmtree_ok |-> TRUE]}

ProbesAt(port) ==
    IF is_port_in_use(net_connections(procs, extPorts), port)
    THEN Probes(port)
    ELSE {NoProbe}

\* server.py BrowserServiceServicer.StartBrowser
GrpcStartBrowser(request_name, request_port) ==
    LET browser_name == or_str(request_name, "chrome")
        port == or_int(request_port, DefaultPort)
    IN  /\ launches < MaxLaunches
        /\ \E r \in start_browser(World, browser_name, port, StartEnvs) :
           \E probe \in (IF /\ r.ret[1]
                             /\ is_port_in_use(net_connections(r.w.procs, r.w.ext),
                                               r.ret[2])
                          THEN Probes(r.ret[2]) ELSE {NoProbe}) :
             LET conn_info == get_browser_connection(
                                  net_connections(r.w.procs, r.w.ext), r.ret[2], probe)
             IN
             /\ SetWorld(r.w)
             /\ UNCHANGED calls
             /\ last' = [NoLast EXCEPT
                           !.facade = "grpc", !.op = "start",
                           !.browser_name = browser_name, !.port = port,
                           !.start_ret = r.ret, !.probes = r.probes,
                           !.response = GrpcStartResponse(r.ret, conn_info)]

\* api_server.py start_browser_endpoint
HttpStartBrowser(request_name, request_port) ==
    /\ launches < MaxLaunches
    /\ \E r \in start_browser(World, request_name, request_port, StartEnvs) :
        LET conns1 == net_connections(r.w.procs, r.w.ext)
            probed == Len(r.ret) = 2 /\ r.ret[1]
        IN \E probe \in (IF probed /\ is_port_in_use(conns1, request_port)
                         THEN Probes(request_port) ELSE {NoProbe}),
              local_ip \in (IF probed THEN LocalIps ELSE {"127.0.0.1"}) :
             LET conn_info == get_browser_connection(conns1, request_port, probe)
             IN
             /\ SetWorld(r.w)
             /\ UNCHANGED calls
             /\ last' = [NoLast EXCEPT
                           !.facade = "http", !.op = "start",
                           !.browser_name = request_name, !.port = request_port,
                           !.start_ret = r.ret, !.probes = r.probes,
                           !.response = HttpStartResponse(r.ret, request_port, conn_info,
                                                          local_ip)]

\* server.py BrowserServiceServicer.StopBrowser
GrpcStopBrowser(request_port, env) ==
    LET port == or_int(request_port, DefaultPort)
        r == close_browser(World, port, env)
    IN  /\ SetWorld(r.w)
        /\ UNCHANGED calls
        /\ last' = [NoLast EXCEPT
                      !.facade = "grpc", !.op = "stop", !.port = port,
                      !.close_ret = r.ret, !.signals = r.signals,
                      !.cleanup = r.cleanup,
                      !.response = GrpcStopResponse(r.ret)]

\* api_server.py stop_browser_endpoint
HttpStopBrowser(request_port, env) ==
    LET r == close_browser(World, request_port, env)
    IN  /\ SetWorld(r.w)
        /\ UNCHANGED calls
        /\ last' = [NoLast EXCEPT
                      !.facade = "http", !.op = "stop", !.port = request_port,
                      !.close_ret = r.ret, !.signals = r.signals,
                      !.cleanup = r.cleanup,
                      !.response = HttpStopResponse(r.ret)]

\* server.py BrowserServiceServicer.GetBrowserConnection
GrpcGetBrowserConnection(request_port, probe) ==
    LET port == or_int(request_port, DefaultPort)
        conns == net_connections(procs, extPorts)
    IN  /\ last' = [NoLast EXCEPT
                      !.facade = "grpc", !.op = "connection", !.port = port,
                      !.conn = get_browser_connection(conns, port, probe),
                      !.probe = probe,
                      !.response = GrpcConnectionResponse(conns, request_port, probe)]
        /\ UNCHANGED <<BROWSER_PROCESSES, procs, dirs, launches, extPorts, calls>>

\* api_server.py get_browser_connection_endpoint
HttpGetBrowserConnection(port, probe, local_ip) ==
    LET conns == net_connections(procs, extPorts)
    IN  /\ last' = [NoLast EXCEPT
                      !.facade = "http", !.op = "connection", !.port = port,
                      !.conn = get_browser_connection(conns, port, probe),
                      !.probe = probe,
                      !.response = HttpConnectionResponse(conns, port, probe, local_ip)]
        /\ UNCHANGED <<BROWSER_PROCESSES, procs, dirs, launches, extPorts, calls>>

\* server.py BrowserServiceServicer.IsBrowserRunning
GrpcIsBrowserRunning(request_port) ==
    /\ UNCHANGED calls
    /\ last' = [NoLast EXCEPT
                  !.facade = "grpc", !.op = "status",
                  !.port = or_int(request_port, DefaultPort),
                  !.response = GrpcRunningResponse(net_connections(procs, extPorts),
                                                   request_port)]
    /\ UNCHANGED <<BROWSER_PROCESSES, procs, dirs, launches, extPorts>>

\* api_server.py is_browser_running_endpoint
HttpIsBrowserRunning(port) ==
    /\ UNCHANGED calls
    /\ last' = [NoLast EXCEPT
                  !.facade = "http", !.op = "status", !.port = port,
                  !.response = HttpRunningResponse(net_connections(procs, extPorts), port)]
    /\ UNCHANGED <<BROWSER_PROCESSES, procs, dirs, launches, extPorts>>

----------------------------------------------------------------------------
(* The machine around the server *)

\* A spawned browser opens its debug port (Popen'ed with
\* --remote-debugging-port): possible while no other socket has the port.
BrowserListens(i) ==
    /\ procs[i].state = "starting"
    /\ procs[i].port \in TcpPorts
    /\ ~is_port_in_use(net_connections(procs, extPorts), procs[i].port)
    /\ procs' = [procs EXCEPT ![i].state = "listening"]
    /\ UNCHANGED calls
    /\ last' = EnvStep
    /\ UNCHANGED <<BROWSER_PROCESSES, dirs, launches, extPorts>>

\* A spawned browser exits by itself (crash, window closed); its socket goes.
BrowserExits(i) ==
    /\ procs[i].state # "exited"
    /\ procs' = collect([World EXCEPT !.procs[i].state = "exited"]).procs
    /\ UNCHANGED calls
    /\ last' = EnvStep
    /\ UNCHANGED <<BROWSER_PROCESSES, dirs, launches, extPorts>>

\* Another process opens sockets on a range of ports, all free.
ExternalBind(range) ==
    /\ range \notin extPorts
    /\ \A port \in {range[1], range[2]} \cup {procs[i].port : i \in DOMAIN procs} :
         range[1] <= port /\ port <= range[2]
           => ~is_port_in_use(net_connections(procs, extPorts), port)
    /\ extPorts' = extPorts \cup {range}
    /\ UNCHANGED calls
    /\ last' = EnvStep
    /\ UNCHANGED <<BROWSER_PROCESSES, procs, dirs, launches>>

\* Another process closes its sockets.
ExternalRelease(range) ==
    /\ range \in extPorts
    /\ extPorts' = extPorts \ {range}
    /\ UNCHANGED calls
    /\ last' = EnvStep
    /\ UNCHANGED <<BROWSER_PROCESSES, procs, dirs, launches>>

Next ==
    \/ \E n \in GrpcNames, p \in RequestedPorts : GrpcStartBrowser(n, p)
    \/ \E n \in BrowserNames, p \in RequestedPorts : HttpStartBrowser(n, p)
    \/ \E p \in KnownPorts : \E env \in CloseEnvsAt(or_int(p, DefaultPort)) :
         GrpcStopBrowser(p, env)
    \/ \E p \in KnownPorts : \E env \in CloseEnvsAt(p) : HttpStopBrowser(p, env)
    \/ \E p \in KnownPorts : \E probe \in ProbesAt(or_int(p, DefaultPort)) :
         GrpcGetBrowserConnection(p, probe)
    \/ \E p \in KnownPorts, ip \in LocalIps : \E probe \in ProbesAt(p) :
         HttpGetBrowserConnection(p, probe, ip)
    \/ \E p \in KnownPorts : GrpcIsBrowserRunning(p)
    \/ \E p \in KnownPorts : HttpIsBrowserRunning(p)
    \/ \E i \in DOMAIN procs : BrowserListens(i)
    \/ \E i \in DOMAIN procs : BrowserExits(i)
    \/ \E range \in ExternalRanges : ExternalBind(range)
    \/ \E range \in ExternalRanges : ExternalRelease(range)

Spec == Init /\ [][Next]_vars

----------------------------------------------------------------------------
(* The calls of two gRPC workers, step by step.                             *)
(* server.py serves the RPCs on a ThreadPoolExecutor and browser_server.py  *)
(* takes no lock: a call runs up to its next blocking point (playwright's   *)
(* lookup, Popen, sleep, wait, rmtree) or its next access to the registry   *)
(* as one step, and the steps of two calls interleave in any order.         *)

\* What the steps of a call can meet: env of launch_browser, and for
\* close_browser whether the browser exits within the wait (graceful),
\* whether terminate() or kill() raises (signal), whether rmtree removes the
\* directory (rmtree_ok).
TerminateEnvs ==
    {[graceful |-> TRUE, signal |-> "ok"],
     [graceful |-> FALSE, signal |-> "ok"],
     [graceful |-> FALSE, signal |-> "terminate_raises"],
     [graceful |-> FALSE, signal |-> "kill_raises"]}

LaunchEnvs == {env \in StartEnvs : env.after = "starting"}

WorkerPorts == {ReservedLo - 1}

\* Mutant: the handler catches OSError only.
catches_oserror(exc) == exc = "OSError"

\* except Exception: the exception classes the handlers of start_browser and
\* close_browser catch.
catches(exc) == exc \in {"OSError", "KeyError", "TimeoutExpired"}

\* A step of the call of frame f raised exc: the except clause returns the
\* failure tuple, or the exception leaves the call.
on_raise(f, exc) ==
    IF catches(exc)
    THEN [f EXCEPT !.pc = "done",
                   !.ret = IF f.op = "start" THEN <<FALSE, f.port, exc>>
                                             ELSE <<FALSE, exc>>]
    ELSE [f EXCEPT !.pc = "done", !.raised = exc]

\* Frame f returns ret.
returns(f, ret) == [f EXCEPT !.pc = "done", !.ret = ret]

\* A Popen object is referenced by the registry or by a local of a call
\* under way; the others are collected once their process has exited.
collect_frames(w, fs) ==
    LET kept == {i \in DOMAIN w.procs :
                   \/ w.procs[i].state # "exited"
                   \/ \E p \in DOMAIN w.reg : w.reg[p].process = i
                   \/ \E t \in DOMAIN fs : fs[t].pc # "done" /\ fs[t].process = i}
    IN  [w EXCEPT !.procs = [i \in kept |-> w.procs[i]]]

\* start_browser lines 36-50: the name check and the port scan.
start_scan(w, f) ==
    LET scan == scan_port(net_connections(w.procs, w.ext), f.port, f.port)
    IN  IF ~valid_browser(f.browser_name)
        THEN returns(f, <<FALSE, f.port, "Invalid browser">>)
        ELSE IF ~scan.found
        THEN returns([f EXCEPT !.probes = scan.probes],
                     <<FALSE, f.port, "Could not find an available port within range">>)
        ELSE [f EXCEPT !.pc = "launch", !.port = scan.port, !.probes = scan.probes]

\* start_browser lines 52-95: executable lookup, mkdtemp, Popen and the
\* registry write, on the port the scan found.
start_launch(w, f, env) ==
    LET r == launch_browser(w, f.browser_name,
                            [found |-> TRUE, port |-> f.port, probes |-> f.probes], env)
    IN  [w |-> r.w,
         f |-> IF r.ret[1]
               THEN [f EXCEPT !.pc = "sleep", !.process = r.w.launches,
                              !.user_data_dir = r.w.launches]
               ELSE returns(f, r.ret)]

\* start_browser lines 98-101: the sleep is over.
start_sleep(f) == returns(f, <<TRUE, f.port, None>>)

\* close_browser lines 154-155.
close_check(w, f) ==
    IF f.port \notin DOMAIN w.reg
    THEN returns(f, <<FALSE, "No browser process tracked on port">>)
    ELSE [f EXCEPT !.pc = "read"]

\* close_browser lines 157-159.
close_read(w, f) ==
    IF f.port \notin DOMAIN w.reg
    THEN on_raise(f, "KeyError")
    ELSE [f EXCEPT !.pc = "terminate",
                   !.process = w.reg[f.port].process,
                   !.user_data_dir = w.reg[f.port].user_data_dir]

\* close_browser lines 161-169: poll(), terminate(), wait(timeout=5), kill().
close_terminate(w, f, env) ==
    LET alive == f.process \in DOMAIN w.procs /\ w.procs[f.process].state # "exited"
        signals == stop_signals(env.graceful)
    IN  IF ~alive
        THEN [w |-> w, f |-> [f EXCEPT !.pc = "cleanup"]]
        ELSE IF env.signal = "terminate_raises"
        THEN [w |-> w, f |-> on_raise(f, "OSError")]
        ELSE IF env.signal = "kill_raises" /\ signals[Len(signals)] = "kill"
        THEN [w |-> w, f |-> on_raise([f EXCEPT !.waits = @ + 1], "OSError")]
        ELSE [w |-> [w EXCEPT !.procs = stop_process(@, f.process, signals, env.graceful)],
              f |-> [f EXCEPT !.pc = "cleanup", !.waits = @ + 1]]

\* close_browser lines 172-176: exists(), sleep(1), rmtree(ignore_errors=True).
close_cleanup(w, f, rmtree_ok) ==
    [w |-> IF rmtree_ok THEN [w EXCEPT !.dirs = @ \ {f.user_data_dir}] ELSE w,
     f |-> [f EXCEPT !.pc = "del"]]

\* close_browser lines 178-179.
close_del(w, f) ==
    IF f.port \notin DOMAIN w.reg
    THEN [w |-> w, f |-> on_raise(f, "KeyError")]
    ELSE [w |-> [w EXCEPT !.reg = dict_del(@, f.port)],
          f |-> returns(f, <<TRUE, None>>)]

\* Worker t is inside a call.
Running(t) == calls[t].pc \notin {"idle", "done"}

\* Worker t takes a step that leaves the world w and its frame f.
WorkerStep(t, w, f) ==
    LET fs == [calls EXCEPT ![t] = [f EXCEPT !.steps = @ + 1]]
    IN  /\ SetWorld(collect_frames(w, fs))
        /\ calls' = fs
        /\ UNCHANGED last

\* A worker picks up a StartBrowser or a StopBrowser RPC.
Begin(t, op, browser_name, port) ==
    /\ ~Running(t)
    /\ op = "start" => launches < MaxLaunches
    /\ calls' = [u \in Workers |->
                   IF u = t
                   THEN [NoCall EXCEPT
                           !.pc = IF op = "start" THEN "scan" ELSE "check",
                           !.op = op, !.browser_name = browser_name, !.port = port,
                           !.peer = \E v \in Workers \ {t} : Running(v)]
                   ELSE IF Running(u) THEN [calls[u] EXCEPT !.peer = TRUE]
                   ELSE calls[u]]
    /\ UNCHANGED <<BROWSER_PROCESSES, procs, dirs, launches, extPorts, last>>

StartScan(t) ==
    /\ calls[t].pc = "scan"
    /\ WorkerStep(t, World, start_scan(World, calls[t]))

StartLaunch(t, env) ==
    /\ calls[t].pc = "launch"
    /\ WorkerStep(t, start_launch(World, calls[t], env).w,
                     start_launch(World, calls[t], env).f)

StartSleep(t) ==
    /\ calls[t].pc = "sleep"
    /\ WorkerStep(t, World, start_sleep(calls[t]))

CloseCheck(t) ==
    /\ calls[t].pc = "check"
    /\ WorkerStep(t, World, close_check(World, calls[t]))

CloseRead(t) ==
    /\ calls[t].pc = "read"
    /\ WorkerStep(t, World, close_read(World, calls[t]))

CloseTerminate(t, env) ==
    /\ calls[t].pc = "terminate"
    /\ WorkerStep(t, close_terminate(World, calls[t], env).w,
                     close_terminate(World, calls[t], env).f)

CloseCleanup(t, rmtree_ok) ==
    /\ calls[t].pc = "cleanup"
    /\ WorkerStep(t, close_cleanup(World, calls[t], rmtree_ok).w,
                     close_cleanup(World, calls[t], rmtree_ok).f)

CloseDel(t) ==
    /\ calls[t].pc = "del"
    /\ WorkerStep(t, close_del(World, calls[t]).w, close_del(World, calls[t]).f)

\* The browsers around the workers: BrowserListens and BrowserExits with the
\* Popen objects of the calls under way kept.
WorkerBrowserListens(i) ==
    /\ procs[i].state = "starting"
    /\ procs[i].port \in TcpPorts
    /\ ~is_port_in_use(net_connections(procs, extPorts), procs[i].port)
    /\ procs' = [procs EXCEPT ![i].state = "listening"]
    /\ UNCHANGED <<BROWSER_PROCESSES, dirs, launches, extPorts, last, calls>>

WorkerBrowserExits(i) ==
    /\ procs[i].state # "exited"
    /\ procs' = collect_frames([World EXCEPT !.procs[i].state = "exited"], calls).procs
    /\ UNCHANGED <<BROWSER_PROCESSES, dirs, launches, extPorts, last, calls>>

NextWorkers ==
    \/ \E t \in Workers, p \in WorkerPorts : Begin(t, "start", "chrome", p)
    \/ \E t \in Workers, p \in WorkerPorts : Begin(t, "stop", "", p)
    \/ \E t \in Workers : StartScan(t)
    \/ \E t \in Workers, env \in LaunchEnvs : StartLaunch(t, env)
    \/ \E t \in Workers : StartSleep(t)
    \/ \E t \in Workers : CloseCheck(t)
    \/ \E t \in Workers : CloseRead(t)
    \/ \E t \in Workers, env \in TerminateEnvs : CloseTerminate(t, env)
    \/ \E t \in Workers, rmtree_ok \in BOOLEAN : CloseCleanup(t, rmtree_ok)
    \/ \E t \in Workers : CloseDel(t)
    \/ \E i \in DOMAIN procs : WorkerBrowserListens(i)
    \/ \E i \in DOMAIN procs : WorkerBrowserExits(i)

\* The workers start with nothing launched; another process may hold every
\* port from the reserved band up to the end of a scan.
InitWorkers ==
    /\ BROWSER_PROCESSES = <<>>
    /\ procs = <<>>
    /\ dirs = {}
    /\ launches = 0
    /\ extPorts \in {{}, {<<ReservedLo, ReservedLo + ScanLimit>>}}
    /\ last = NoLast
    /\ calls = [t \in Workers |-> NoCall]

SpecWorkers == InitWorkers /\ [][NextWorkers]_vars

----------------------------------------------------------------------------
(* Requests at the ends of the port range *)

\* Requested ports: the unset port of a request and the highest TCP port.
EdgePorts == {0, 65535}
\* Ports of stop requests: what a start from those registers.
EdgeKnownPorts == {0, 65536}
\* Another process holds the highest port.
EdgeRanges == {<<65535, 65535>>}

NextEdge ==
    \/ \E p \in EdgePorts : GrpcStartBrowser("chrome", p)
    \/ \E p \in EdgePorts : HttpStartBrowser("chrome", p)
    \/ \E p \in EdgeKnownPorts : \E env \in CloseEnvsAt(or_int(p, DefaultPort)) :
         GrpcStopBrowser(p, env)
    \/ \E p \in EdgeKnownPorts : \E env \in CloseEnvsAt(p) : HttpStopBrowser(p, env)
    \/ \E p \in EdgeKnownPorts : HttpIsBrowserRunning(p)
    \/ \E i \in DOMAIN procs : BrowserListens(i)
    \/ \E i \in DOMAIN procs : BrowserExits(i)
    \/ \E range \in EdgeRanges : ExternalBind(range)
    \/ \E range \in EdgeRanges : ExternalRelease(range)

SpecEdge == Init /\ [][NextEdge]_vars

----------------------------------------------------------------------------
(* Properties *)

\* A socket with local port p exists: another process's or a listening browser's.
PortBound(p) ==
    \/ \E r \in extPorts : r[1] <= p /\ p <= r[2]
    \/ \E i \in DOMAIN procs : procs[i].state = "listening" /\ procs[i].port = p

\* Process handle i is not running.
Exited(i) == i \notin DOMAIN procs \/ procs[i].state = "exited"

\* C1: a start_browser call either returns success with port p and then the
\* registry has at p the process and the profile directory this call made,
\* every other entry as before; or returns failure with an error message and
\* the registry is as before.
C1_StartRegistersOrLeaves ==
    [][last'.op = "start" =>
        LET ret == last'.start_ret
            p == ret[2]
        IN  IF ret[1]
            THEN /\ ret[3] = None
                 /\ p \in DOMAIN BROWSER_PROCESSES'
                 /\ BROWSER_PROCESSES'[p].process \in DOMAIN procs' \ DOMAIN procs
                 /\ procs'[BROWSER_PROCESSES'[p].process].port = p
                 /\ BROWSER_PROCESSES'[p].user_data_dir \in dirs' \ dirs
                 /\ BROWSER_PROCESSES'[p].browser_name = last'.browser_name
                 /\ DOMAIN BROWSER_PROCESSES' = DOMAIN BROWSER_PROCESSES \cup {p}
                 /\ \A q \in DOMAIN BROWSER_PROCESSES \ {p} :
                      BROWSER_PROCESSES'[q] = BROWSER_PROCESSES[q]
            ELSE /\ ret[3] # None
                 /\ BROWSER_PROCESSES' = BROWSER_PROCESSES]_vars

\* C1 witness: a start succeeded while another port had an entry.
C1_Witness ==
    /\ last.op = "start"
    /\ last.start_ret[1]
    /\ DOMAIN BROWSER_PROCESSES \ {last.start_ret[2]} # {}

\* C2: the port of a successful start_browser is outside the reserved band
\* 50050..50061 and had no socket when the call probed it.
C2_PortFreeAndUnreserved ==
    [][last'.op = "start" /\ last'.start_ret[1] =>
        /\ last'.start_ret[2] \notin ReservedLo .. (ReservedHi - 1)
        /\ ~PortBound(last'.start_ret[2])]_vars

\* C2 witness: a start asked for the port just below the band, which was
\* taken, and succeeded on the first port above the band.
C2_Witness ==
    /\ last.op = "start"
    /\ last.start_ret[1]
    /\ last.port = ReservedLo - 1
    /\ last.start_ret[2] = ReservedHi

\* C3: a successful close_browser(port) leaves no entry for port; an entry
\* appears only by a start; close_browser of a port without entry fails with
\* the not-tracked error, signals no process, removes no directory and
\* leaves the registry as it is, whoever holds the port.
C3_StopThenStop ==
    [][/\ last'.op = "stop" /\ last'.close_ret[1]
            => last'.port \notin DOMAIN BROWSER_PROCESSES'
       /\ DOMAIN BROWSER_PROCESSES' \ DOMAIN BROWSER_PROCESSES # {}
            => last'.op = "start"
       /\ last'.op = "stop" /\ last'.port \notin DOMAIN BROWSER_PROCESSES
            => /\ last'.close_ret = <<FALSE, "No browser process tracked on port">>
               /\ last'.signals = <<>>
               /\ last'.cleanup = "none"
               /\ UNCHANGED <<BROWSER_PROCESSES, procs, dirs, launches, extPorts>>]_vars

\* C3 witness: a stop failed on a port that another process holds, after a
\* browser had been started and stopped.
C3_Witness ==
    /\ last.op = "stop"
    /\ ~last.close_ret[1]
    /\ PortBound(last.port)
    /\ launches > 0
    /\ BROWSER_PROCESSES = <<>>

\* What close_browser(p) on an entry with a live process leaves, but for the
\* profile directory: success, the process exited, no entry for p, and
\* get_browser_connection(p) None unless another process has a socket on p.
StopLiveBrowserDone ==
    LET p == last'.port
        e == BROWSER_PROCESSES[p]
        others == \/ \E r \in extPorts' : r[1] <= p /\ p <= r[2]
                  \/ \E j \in DOMAIN procs' \ {e.process} :
                       procs'[j].state = "listening" /\ procs'[j].port = p
    IN  /\ last'.close_ret = <<TRUE, None>>
        /\ e.process \notin DOMAIN procs' \/ procs'[e.process].state = "exited"
        /\ p \notin DOMAIN BROWSER_PROCESSES'
        /\ ~others =>
             \A probe \in Probes(p) :
               get_browser_connection(net_connections(procs', extPorts'), p, probe).none

StopOfLiveBrowser ==
    /\ last'.op = "stop"
    /\ last'.port \in DOMAIN BROWSER_PROCESSES
    /\ procs[BROWSER_PROCESSES[last'.port].process].state # "exited"

C5_ConnectionIffBound ==
    last.op = "connection" => (last.conn.none <=> ~PortBound(last.port))

\* C5 witness: None for a port whose registry entry has a dead browser.
C5_Witness ==
    /\ last.op = "connection"
    /\ last.conn.none
    /\ last.port \in DOMAIN BROWSER_PROCESSES
    /\ Exited(BROWSER_PROCESSES[last.port].process)

\* C6 as claimed: when a successful start_browser is followed directly by a
\* start_browser with the same requested port, the second fails or returns
\* another port, and the entry of the first stays.
C6_Original ==
    [][/\ last.op = "start" /\ last.start_ret[1]
       /\ last'.op = "start" /\ last'.port = last.port
       /\ last'.start_ret[1]
       => /\ last'.start_ret[2] # last.start_ret[2]
          /\ last.start_ret[2] \in DOMAIN BROWSER_PROCESSES'
          /\ BROWSER_PROCESSES'[last.start_ret[2]] = BROWSER_PROCESSES[last.start_ret[2]]]_vars

\* C7: for a bound port get_browser_connection gives ip 127.0.0.1 and the
\* port; ws_endpoint and cdp_url are the webSocketDebuggerUrl of /json/version
\* when the request succeeded with status 200 and the field is non-empty, and
\* ws://127.0.0.1:<port>/ otherwise.
C7_EndpointDiscoveredOrFallback ==
    last.op = "connection" /\ ~last.conn.none =>
        LET info == last.conn.info
            data == last.probe.data
            reported == /\ last.probe.outcome = "ok"
                        /\ last.probe.status_code = 200
                        /\ "webSocketDebuggerUrl" \in DOMAIN data
                        /\ data["webSocketDebuggerUrl"] # NoUrl
            url == IF reported THEN data["webSocketDebuggerUrl"]
                   ELSE <<"ws", "127.0.0.1", last.port, "/">>
        IN  /\ info.ip = "127.0.0.1"
            /\ info.port = last.port
            /\ info.ws_endpoint = url
            /\ info.cdp_url = url

\* C7 witness: the answer had status 404 and a webSocketDebuggerUrl, and the
\* fallback was returned.
C7_Witness ==
    /\ last.op = "connection"
    /\ ~last.conn.none
    /\ last.probe.status_code = 404
    /\ "webSocketDebuggerUrl" \in DOMAIN last.probe.data
    /\ last.conn.info.ws_endpoint = <<"ws", "127.0.0.1", last.port, "/">>

\* C8: start_browser with an unsupported browser name fails with the
\* invalid-browser error whatever the port, probes no port and changes
\* nothing, also where the port scan or the executable lookup would fail.
C8_InvalidBrowserFirst ==
    [][last'.op = "start" /\ last'.browser_name \notin SupportedBrowsers =>
        /\ last'.start_ret = <<FALSE, last'.port, "Invalid browser">>
        /\ last'.probes = 0
        /\ UNCHANGED <<BROWSER_PROCESSES, procs, dirs, launches, extPorts>>]_vars

\* C8 witness: an unsupported name was refused where every port of the scan
\* range was taken or reserved.
C8_Witness ==
    /\ last.op = "start"
    /\ last.browser_name \notin SupportedBrowsers
    /\ last.start_ret[3] = "Invalid browser"
    /\ \A q \in last.port .. (last.port + ScanLimit) :
         PortBound(q) \/ q \in reserved_ports

\* C9 as claimed: when the start_browser call of POST /browser/start
\* succeeded, the answer is a normal response with success, cdp_url and
\* ws_endpoint.
C9_Original ==
    last.op = "start" /\ last.facade = "http" /\ last.start_ret[1] =>
        /\ last.response.status = 200
        /\ last.response.success
        /\ last.response.cdp_url # NoUrl
        /\ last.response.ws_endpoint # NoUrl

\* C10 as claimed: for one port and one state, the HTTP connection endpoint
\* and gRPC GetBrowserConnection give the same running flag and the same
\* ws_endpoint; after a successful start either facade answers with the
\* endpoint of the port the launcher used.
C10_Original ==
    /\ last.op = "connection" /\ last.facade = "http" =>
         LET grpc == GrpcConnectionResponse(net_connections(procs, extPorts),
                                            last.port, last.probe)
         IN  /\ grpc.running = last.response.running
             /\ grpc.ws_endpoint = last.response.ws_endpoint
    /\ last.op = "start" /\ last.start_ret[1] =>
         last.response.ws_endpoint[3] = last.start_ret[2]

\* C11: start_browser and close_browser never raise to their caller: every
\* call that has ended, whatever its steps met (a failing mkdtemp or Popen, a
\* raising terminate() or kill(), a registry entry another call deleted
\* meanwhile), returned a tuple of 3 (start) or 2 (stop) components whose first
\* is the success flag and whose last is None exactly on success.
C11_NeverRaises ==
    \A t \in Workers :
      calls[t].pc = "done" =>
        LET ret == calls[t].ret
        IN  /\ calls[t].raised = None
            /\ Len(ret) = IF calls[t].op = "start" THEN 3 ELSE 2
            /\ ret[1] \in BOOLEAN
            /\ ret[1] <=> ret[Len(ret)] = None

\* C11 witness: a close_browser that found its port tracked ended on the
\* KeyError of an entry that the call of the other worker had deleted.
C11_Witness ==
    \E t \in Workers :
      /\ calls[t].pc = "done"
      /\ calls[t].op = "stop"
      /\ calls[t].peer
      /\ calls[t].ret = <<FALSE, "KeyError">>

\* C12: the port scan of start_browser is first-fit with a cap. For a
\* supported browser and requested port r: when some port of r..r+100 is
\* neither bound nor in 50050..50061, the call goes on with the smallest such
\* port (the port of its result); when none is, it fails with the
\* no-available-port error for r, no directory created and no process
\* spawned. It never goes on with a port above r+100.
C12_FirstFitWithCap ==
    [][last'.op = "start" /\ valid_browser(last'.browser_name) =>
        LET r == last'.port
            ret == last'.start_ret
            free == {q \in r .. (r + ScanLimit) :
                       ~PortBound(q) /\ q \notin reserved_ports}
        IN  IF free = {}
            THEN /\ ret = <<FALSE, r, "Could not find an available port within range">>
                 /\ dirs' = dirs
                 /\ procs' = procs
                 /\ launches' = launches
            ELSE /\ ret[2] \in free
                 /\ \A q \in free : ret[2] <= q
                 /\ ret[2] <= r + ScanLimit
                 /\ ret[3] # "Could not find an available port within range"]_vars

\* C12 witness: a start asked for a bound port below the reserved band and,
\* 14 probes later, launched on the first port above the band.
C12_Witness ==
    /\ last.op = "start"
    /\ last.port = ReservedLo - 1
    /\ last.probes = ReservedHi - ReservedLo + 2
    /\ last.start_ret = <<TRUE, ReservedHi, None>>

C14_Original ==
    [][/\ last'.op \in {"status", "connection"} =>
            BROWSER_PROCESSES' = BROWSER_PROCESSES
       /\ \A p \in DOMAIN BROWSER_PROCESSES' \ DOMAIN BROWSER_PROCESSES :
            last'.op = "start" /\ last'.start_ret = <<TRUE, p, None>>
       /\ \A p \in DOMAIN BROWSER_PROCESSES \ DOMAIN BROWSER_PROCESSES' :
            last'.op = "stop" /\ last'.port = p
       /\ \A p \in DOMAIN BROWSER_PROCESSES :
            Exited(BROWSER_PROCESSES[p].process) =>
              /\ ~(last'.op = "stop" /\ last'.port = p) =>
                   /\ p \in DOMAIN BROWSER_PROCESSES'
                   /\ BROWSER_PROCESSES'[p] = BROWSER_PROCESSES[p]
              /\ last'.op = "status" /\ last'.port = p =>
                   ~last'.response.running]_vars

\* C15 as claimed: when two close_browser(p) calls of two workers ran at the
\* same time and one of them found p tracked (and no terminate() or kill()
\* raised), that one returned success and the other the 'not tracked'
\* failure, neither raised, and the registry has no entry for p.
C15_Original ==
    \A t, u \in Workers :
      /\ t # u
      /\ calls[t].pc = "done" /\ calls[u].pc = "done"
      /\ calls[t].op = "stop" /\ calls[u].op = "stop"
      /\ calls[t].port = calls[u].port
      /\ calls[t].peer /\ calls[u].peer
      /\ calls[t].ret[2] # "OSError" /\ calls[u].ret[2] # "OSError"
      /\ calls[t].ret # <<FALSE, "No browser process tracked on port">>
      => /\ calls[t].raised = None /\ calls[u].raised = None
         /\ calls[t].ret = <<TRUE, None>>
         /\ calls[u].ret = <<FALSE, "No browser process tracked on port">>
         /\ calls[t].port \notin DOMAIN BROWSER_PROCESSES

\* C16 as claimed: a close_browser that deletes the entry of its port deletes
\* the entry it read, the one whose process it terminated, never an entry a
\* start of another worker wrote there since.
C16_Original ==
    [][\A t \in Workers :
         calls[t].pc = "del" /\ calls'[t].ret = <<TRUE, None>> =>
           BROWSER_PROCESSES[calls[t].port].process = calls[t].process]_vars

\* C17 as claimed: when two start_browser calls of two workers ran at the same
\* time and both returned success, they returned different ports and the
\* registry has, at each of the two ports, the entry of the process that call
\* spawned.
C17_Original ==
    \A t, u \in Workers :
      /\ t # u
      /\ calls[t].pc = "done" /\ calls[u].pc = "done"
      /\ calls[t].op = "start" /\ calls[u].op = "start"
      /\ calls[t].peer /\ calls[u].peer
      /\ calls[t].ret[1] /\ calls[u].ret[1]
      => /\ calls[t].ret[2] # calls[u].ret[2]
         /\ calls[t].ret[2] \in DOMAIN BROWSER_PROCESSES
         /\ BROWSER_PROCESSES[calls[t].ret[2]].process = calls[t].process

\* The frames the next step of the call of frame f can leave, in world w.
NextFrames(w, f) ==
    CASE f.pc = "scan" -> {start_scan(w, f)}
      [] f.pc = "launch" -> {start_launch(w, f, env).f : env \in LaunchEnvs}
      [] f.pc = "sleep" -> {start_sleep(f)}
      [] f.pc = "check" -> {close_check(w, f)}
      [] f.pc = "read" -> {close_read(w, f)}
      [] f.pc = "terminate" -> {close_terminate(w, f, env).f : env \in TerminateEnvs}
      [] f.pc = "cleanup" -> {close_cleanup(w, f, ok).f : ok \in BOOLEAN}
      [] f.pc = "del" -> {close_del(w, f).f}
      [] OTHER -> {}

\* C18: every start_browser and close_browser call returns after a bounded
\* number of steps, whatever the browser and the ports do: the scan probes at
\* most 101 ports, a stop waits for the process at most once, a start takes
\* at most 3 steps and a stop at most 5, and a call under way always has a
\* next step, which moves it on (none waits for the browser to write, to
\* listen or to exit, none is repeated).
C18_BoundedCalls ==
    \A t \in Workers :
      /\ calls[t].probes <= ScanLimit + 1
      /\ calls[t].waits <= 1
      /\ calls[t].steps <= IF calls[t].op = "start" THEN 3 ELSE 5
      /\ Running(t) =>
           /\ NextFrames(World, calls[t]) # {}
           /\ \A f \in NextFrames(World, calls[t]) :
                /\ f.pc # calls[t].pc
                /\ f.pc = "done" \/ f.waits <= 1

\* C18 witness: a start gave up after probing 101 ports, and a stop is past
\* its wait for a browser that is still running.
C18_Witness ==
    \E t, u \in Workers :
      /\ calls[t].pc = "done" /\ calls[t].op = "start"
      /\ calls[t].probes = ScanLimit + 1
      /\ calls[t].ret[3] = "Could not find an available port within range"
      /\ calls[u].op = "stop" /\ calls[u].waits = 1
      /\ \E i \in DOMAIN procs : procs[i].state # "exited"

\* C19 as claimed: no resource is orphaned. After any series of start, stop
\* and query calls every profile directory that exists and every spawned
\* process that is alive is referenced by exactly one registry entry.
C19_Original ==
    /\ \A d \in dirs :
         Cardinality({p \in DOMAIN BROWSER_PROCESSES :
                        BROWSER_PROCESSES[p].user_data_dir = d}) = 1
    /\ \A i \in DOMAIN procs :
         procs[i].state # "exited" =>
           Cardinality({p \in DOMAIN BROWSER_PROCESSES :
                          BROWSER_PROCESSES[p].process = i}) = 1

\* C20 as claimed: every port a successful start_browser returns, and every
\* registry key, is a TCP port, 1..65535; a start asked for a port outside of
\* that fails.
C20_Original ==
    /\ \A p \in DOMAIN BROWSER_PROCESSES : p \in TcpPorts
    /\ last.op = "start" /\ last.start_ret[1] => last.start_ret[2] \in TcpPorts
    /\ last.op = "start" /\ last.port \notin TcpPorts => ~last.start_ret[1]

====
